---------------------------- MODULE Spec2Model ----------------------------
(***************************************************************************)
(* Model of the hero carousel (src/assets/hero-carousel.js): one           *)
(* HeroCarouselLayer on one element, driven by its frame-advance timer,    *)
(* the animation-frame and cleanup callbacks of its transitions, the hover *)
(* listeners of init(), the public pause()/resume()/destroy() and the      *)
(* HeroCarouselManager broadcasts pauseAll()/resumeAll().                  *)
(*                                                                         *)
(* Specifications:                                                         *)
(*   Spec         one layer, its timers, callbacks and frame styles        *)
(*   ManagerSpec  the HeroCarouselManager, the page's carousel elements    *)
(*                and every layer it constructs                            *)
(*   ConfigSpec   one layer constructed from the text of its data-*        *)
(*                attributes and never paused                              *)
(*   EffectsSpec  the scroll and pointer handlers: the image modifiers of  *)
(*                one layer (zoom, parallax, tilt, blur-focus) and the     *)
(*                scroll parallax of ModernAnimations                      *)
(*   EnhancerSpec ModernAnimations.setup() and the click and hover         *)
(*                handlers it attaches (src/unnamed/part_000)              *)
(*   ParallaxSpec the body of the layer's scroll handler as a function of  *)
(*                the element's rectangle and the viewport height          *)
(*                                                                         *)
(* Time is discrete; one unit is 100 ms, the largest unit in which the     *)
(* four transition durations (800/1000/1200/900 ms) are whole numbers.     *)
(* setTimeout callbacks run exactly when their delay has elapsed.  A       *)
(* requestAnimationFrame callback runs within one display frame (about     *)
(* 16 ms), which is below the clock resolution: it runs before the clock   *)
(* advances, but other handlers may run before it.                         *)
(***************************************************************************)
EXTENDS Integers, Sequences, FiniteSets, TLC

\* ------------------------------------------------------------- bounds ---
MaxFrames == 3      \* frames found in the container: 0..MaxFrames
MaxAdvances == 4    \* firings of the frame-advance timer that are followed
MaxTime == 30       \* the clock of a never-paused layer stops at MaxTime units
MaxDestroyCalls == 2 \* destroy() calls in a row
MaxElements == 2    \* .hero-carousel-layer elements in the page: 0..MaxElements
MaxRefreshes == 1   \* theme-editor events (section load, section reorder)

\* ---------------------------------------------------- program constants ---
FadeDuration == 8           \* 800 ms
SlideDuration == 10         \* 1000 ms
ZoomDuration == 12          \* 1200 ms
BlurDuration == 9           \* 900 ms

\* no timer pending
NoTimer == 0 - 1

\* data-frame-duration values tried, already multiplied by 1000 ms (units
\* of 100 ms): 0.5 s, 1 s, 1.3 s
FrameDurations == {5, 10, 13}
TransitionTypes == {"fade", "slide", "zoom", "blur"}
\* data-*-intensity values tried for the optional effects
Intensities == {0, 5}

\* the settings tried: every duration and transition type, with the optional
\* effects all disabled or all enabled
SettingsTried ==
  {[frameDuration |-> d, transitionType |-> t, zoomIntensity |-> e,
    parallaxVIntensity |-> e, kenBurnsIntensity |-> e] :
     d \in FrameDurations, t \in TransitionTypes, e \in Intensities}

\* the data-carousel-id of the element
carouselId == "hero"

VARIABLES
  frames,         \* this.frames.length
  settings,       \* this.settings
  currentFrame,   \* this.currentFrame
  isPlaying,      \* this.isPlaying
  animationId,    \* this.animationId: "null" or "id"
  advTimer,       \* remaining delay of the timer animationId names, or NoTimer
  orphans,        \* remaining delays of pending frame-advance timers that
                  \* animationId no longer names
  frameStyle,     \* frame.style of every frame
  rafQueue,       \* requestAnimationFrame callbacks not yet run
  cleanups,       \* pending setTimeout cleanups of transitions
  styleIds,       \* ids of the <style> elements in document.head
  scrollHandler,  \* this.scrollHandler is set
  scrollListener, \* the window 'scroll' listener is attached
  hoverListeners, \* the mouseenter/mouseleave listeners of init() are attached
  destroyed,      \* history: destroy() has been called
  destroyCalls,   \* history: number of destroy() calls just made in a row
  now,            \* history: elapsed time since construction, kept while
                  \* pause() has never been called; -1 afterwards
  advances,       \* history: firings of the frame-advance timer
  everPaused,     \* history: pause() has been called
  pausedSnap,     \* history: what pause() found when it was called with
                  \* isPlaying true, kept until the next resume()
  resumeInfo,     \* history: set by a resume() that restarted the loop, until
                  \* the next pause() or firing of the frame-advance timer
  firedAfter,     \* history: resumeInfo as the frame-advance timer found it,
                  \* in the state right after the timer's callback
  pointerInside,  \* environment: the pointer is over the layer's element
  lastOp,         \* history: the operation that ran last
  dataset,        \* element.dataset: the attributes the constructor read (kept
                  \* in ConfigSpec only)
  \* ---- ManagerSpec
  dom,            \* the .hero-carousel-layer elements of the page, in document
                  \* order: what querySelectorAll returns
  carousels,      \* manager.carousels: carousel id -> layer (its number)
  layers,         \* every HeroCarouselLayer constructed so far, by number
  headStyles,     \* the <style> elements of document.head, in document order
  refreshTimers,  \* remaining delays of the pending setTimeout of refresh()
  discoveries,    \* history: runs of setupCarousels() since the last refresh(),
                  \* counted up to 2
  freshFrom,      \* history: the layers constructed when refresh() last ran
  refreshes,      \* history: theme-editor events so far
  \* ---- the user agent (EffectsSpec and EnhancerSpec)
  coarsePointer,  \* (hover: hover) does not match or (pointer: coarse) matches
  reducedMotion,  \* (prefers-reduced-motion: reduce) matches
  \* ---- EffectsSpec
  effectSettings, \* this.settings: the intensities of the image modifiers
  imgStyle,       \* img.style of the frames' images: every handler writes the
                  \* same value to each of them
  pointerOver,    \* environment: the pointer is over the layer's element
  throttled,      \* the throttle of handleScroll is within its 16 ms interval
  ticking,        \* `ticking` of setupParallax()
  parallaxRequests, \* updateParallax callbacks requestAnimationFrame holds
  parallaxListeners, \* 'scroll' listeners setupParallax() has attached
  parallaxBg,     \* style.transform of the .parallax-bg elements
  scrollY,        \* environment: window.pageYOffset
  bodyRuns,       \* history: runs of each handler's body in the current
                  \* animation frame (tilt, enhancer) or throttle interval
                  \* (parallax), counted up to MaxRuns
  lastMove,       \* history: the pointer position of the last mousemove the
                  \* tilt handler got since the pointer entered, or NoMove
  handledY,       \* history: the scroll position of the last scroll event
                  \* whose parallax body ran, or NotHandled
  \* ---- EnhancerSpec
  setups,         \* history: invocations of setup()
  sections,       \* the .section elements of the page
  dividers,       \* the .section-divider elements of the page
  classes,        \* classList of the elements setup() writes to
  clickListeners, \* 'click' listeners on the .button element
  ripples,        \* ripple <span> elements in the button, each with its timer
  lastInserted,   \* history: ripples the last click inserted, NoClick if none
  followers,      \* .cursor-follower elements in document.body
  followerActive, \* the followers have class 'active'
  heroImage,      \* style of the .hero__image element
  heroOver,       \* environment: the pointer is over the .hero container
  heroListeners,  \* mouseenter/mouseleave listener pairs on the .hero container
  firstSetup,     \* history: the dividers and classes after the first setup()
  \* ---- ParallaxSpec
  innerHeight,    \* environment: window.innerHeight
  rectHeight,     \* environment: getBoundingClientRect().height of the element
  rectTop,        \* environment: getBoundingClientRect().top of the element
  lastProgress    \* history: scrollProgress as handleScroll last computed it,
                  \* or NotHandled

vars == <<frames, settings, currentFrame, isPlaying, animationId, advTimer,
          orphans, frameStyle, rafQueue, cleanups, styleIds, scrollHandler,
          scrollListener, hoverListeners, destroyed, destroyCalls, now, advances,
          everPaused, pausedSnap, resumeInfo, firedAfter,
          pointerInside, lastOp, dataset,
          dom, carousels, layers, headStyles, refreshTimers, discoveries,
          freshFrom, refreshes,
          coarsePointer, reducedMotion,
          effectSettings, imgStyle, pointerOver, throttled, ticking, parallaxRequests,
          parallaxListeners, parallaxBg, scrollY, bodyRuns, lastMove, handledY,
          setups, sections, dividers, classes, clickListeners, ripples,
          lastInserted, followers, followerActive, heroImage, heroOver, heroListeners,
          firstSetup,
          innerHeight, rectHeight, rectTop, lastProgress>>

\* the geometry the scroll handler reads and the progress it computes
geometryVars == <<innerHeight, rectHeight, rectTop, lastProgress>>

\* what the user agent reports
agentVars == <<coarsePointer, reducedMotion>>

\* the image modifiers of a layer and the scroll parallax of the enhancer
effectVars == <<effectSettings, imgStyle, pointerOver, throttled, ticking, parallaxRequests,
                parallaxListeners, parallaxBg, scrollY, bodyRuns, lastMove, handledY>>

\* what ModernAnimations.setup() and its handlers write
enhancerVars == <<setups, sections, dividers, classes, clickListeners, ripples,
                  lastInserted, followers, followerActive, heroImage, heroOver, heroListeners,
                  firstSetup>>

\* the page outside the carousel's frames
pageVars == <<agentVars, effectVars, enhancerVars, geometryVars>>

\* the manager, the page and the layers the manager constructed
managerVars == <<dom, carousels, layers, headStyles, refreshTimers, discoveries,
                 freshFrom, refreshes>>

\* the single layer of Spec, without the clock and the name of the last step
soleLayerVars == <<frames, settings, currentFrame, isPlaying, animationId, advTimer,
                   orphans, frameStyle, rafQueue, cleanups, styleIds, scrollHandler,
                   scrollListener, hoverListeners, destroyed, destroyCalls, advances,
                   everPaused, pausedSnap, resumeInfo, firedAfter, pointerInside,
                   dataset>>

\* the layer, its timers and callbacks, and the document's style resources
layerVars == <<currentFrame, isPlaying, animationId, advTimer, orphans,
               frameStyle, rafQueue, cleanups, styleIds, scrollHandler,
               scrollListener, hoverListeners>>

FrameIdx == 0 .. (frames - 1)

NoSnap == [taken |-> FALSE]

NoResume == [resumed |-> FALSE]

\* the ids of the <style> elements setupKenBurnsEffect() and destroy() name
\* for a layer of n frames (frame.dataset.frameIndex is the frame's index)
StyleIdsOf(n) == {<<carouselId, i>> : i \in 0 .. (n - 1)}

\* ------------------------------------------------------ pure functions ---

\* getTransitionDuration()
getTransitionDuration(type) ==
  CASE type = "fade" -> FadeDuration
    [] type = "slide" -> SlideDuration
    [] type = "zoom" -> ZoomDuration
    [] type = "blur" -> BlurDuration
    [] OTHER -> FadeDuration

\* the style a frame has before any script touches it
UnsetStyle == [opacity |-> "", transform |-> "", filter |-> "", zIndex |-> ""]

\* setupTransitions()
setupTransitions(n) ==
  [i \in 0 .. (n - 1) |->
     [opacity |-> IF i = 0 THEN "1" ELSE "0",
      transform |-> "scale(1)",
      filter |-> "blur(0px)",
      zIndex |-> IF i = 0 THEN "2" ELSE "1"]]

\* one assignment frame.style.<field> = value
SetStyle(st, i, field, value) == [st EXCEPT ![i][field] = value]

\* fadeTransition(currentFrame, nextFrame)
fadeTransition(st, cur, nxt) ==
  SetStyle(SetStyle(st, nxt, "opacity", "1"), cur, "opacity", "0")

\* slideTransition: the statements before requestAnimationFrame
slideTransition(st, cur, nxt) ==
  SetStyle(SetStyle(st, nxt, "transform", "translateX(100%)"), nxt, "opacity", "1")

\* slideTransition: the requestAnimationFrame callback
slideAnimationFrame(st, cur, nxt) ==
  SetStyle(SetStyle(st, nxt, "transform", "translateX(0)"),
           cur, "transform", "translateX(-100%)")

\* slideTransition: the setTimeout callback
slideCleanup(st, cur) ==
  SetStyle(SetStyle(st, cur, "opacity", "0"), cur, "transform", "translateX(0)")

\* zoomTransition: the statements before requestAnimationFrame
zoomTransition(st, cur, nxt) ==
  SetStyle(SetStyle(st, nxt, "transform", "scale(1.1)"), nxt, "opacity", "1")

\* zoomTransition: the requestAnimationFrame callback
zoomAnimationFrame(st, cur, nxt) ==
  SetStyle(SetStyle(SetStyle(st, nxt, "transform", "scale(1)"),
                    cur, "transform", "scale(0.9)"),
           cur, "opacity", "0")

\* zoomTransition: the setTimeout callback
zoomCleanup(st, cur) == SetStyle(st, cur, "transform", "scale(1)")

\* blurTransition: the statements before requestAnimationFrame
blurTransition(st, cur, nxt) ==
  SetStyle(SetStyle(st, nxt, "filter", "blur(10px)"), nxt, "opacity", "1")

\* blurTransition: the requestAnimationFrame callback
blurAnimationFrame(st, cur, nxt) ==
  SetStyle(SetStyle(SetStyle(st, nxt, "filter", "blur(0px)"),
                    cur, "filter", "blur(10px)"),
           cur, "opacity", "0")

\* blurTransition: the setTimeout callback
blurCleanup(st, cur) == SetStyle(st, cur, "filter", "blur(0px)")

\* a transitionToFrame that raises the next frame and never lowers the
\* current one
transitionToFrameKeepsZ(st, type, cur, nxt) ==
  LET z == SetStyle(st, nxt, "zIndex", "2")
  IN CASE type = "fade" -> fadeTransition(z, cur, nxt)
       [] type = "slide" -> slideTransition(z, cur, nxt)
       [] type = "zoom" -> zoomTransition(z, cur, nxt)
       [] type = "blur" -> blurTransition(z, cur, nxt)
       [] OTHER -> fadeTransition(z, cur, nxt)

\* transitionToFrame(currentFrame, nextFrame): the frame styles when it returns
transitionToFrame(st, type, cur, nxt) ==
  LET z == SetStyle(SetStyle(st, nxt, "zIndex", "2"), cur, "zIndex", "1")
  IN CASE type = "fade" -> fadeTransition(z, cur, nxt)
       [] type = "slide" -> slideTransition(z, cur, nxt)
       [] type = "zoom" -> zoomTransition(z, cur, nxt)
       [] type = "blur" -> blurTransition(z, cur, nxt)
       [] OTHER -> fadeTransition(z, cur, nxt)

\* the strategies that call requestAnimationFrame
UsesAnimationFrame(type) == type \in {"slide", "zoom", "blur"}

\* the requestAnimationFrame callback of the layer's strategy
animationFrameCallback(st, type, cur, nxt) ==
  CASE type = "slide" -> slideAnimationFrame(st, cur, nxt)
    [] type = "zoom" -> zoomAnimationFrame(st, cur, nxt)
    [] type = "blur" -> blurAnimationFrame(st, cur, nxt)
    [] OTHER -> st

\* the setTimeout callback of the layer's strategy
cleanupCallback(st, type, cur) ==
  CASE type = "slide" -> slideCleanup(st, cur)
    [] type = "zoom" -> zoomCleanup(st, cur)
    [] type = "blur" -> blurCleanup(st, cur)
    [] OTHER -> st

\* an index that wraps one frame early
nextIndexWrapsEarly(cur, n) == (cur + 1) % (n - 1)

\* an index that is never wrapped
nextIndexNoWrap(cur, n) == cur + 1

\* nextFrame(): the new current index
nextIndex(cur, n) == (cur + 1) % n

\* a delay taken from the transition instead of the frame duration
scheduleDelayOfTransition(s) == getTransitionDuration(s.transitionType)

\* the delay scheduleNextFrame() passes to setTimeout
scheduleDelay(s) == s.frameDuration

\* setupKenBurnsEffect(): the <style> elements in the document when it returns
setupKenBurnsEffect(ids, n) == ids \cup StyleIdsOf(n)

\* no manager has been constructed and the page has no carousel element
NoManager ==
  /\ dom = <<>>
  /\ carousels = <<>>
  /\ layers = <<>>
  /\ headStyles = <<>>
  /\ refreshTimers = <<>>
  /\ discoveries = 0
  /\ freshFrom = 0
  /\ refreshes = 0

NoMove == <<>>

NotHandled == 0 - 1

NoClick == 0 - 1

\* a style property that was never set
Unset == <<>>

\* no image modifier is set up and no scroll or pointer event has come
NoEffects ==
  /\ effectSettings = <<>>
  /\ imgStyle = [transform |-> Unset, filter |-> Unset]
  /\ pointerOver = FALSE
  /\ throttled = FALSE
  /\ ticking = FALSE
  /\ parallaxRequests = 0
  /\ parallaxListeners = 0
  /\ parallaxBg = Unset
  /\ scrollY = 0
  /\ bodyRuns = [tilt |-> 0, parallax |-> 0, enhancer |-> 0]
  /\ lastMove = NoMove
  /\ handledY = NotHandled

\* ModernAnimations is not constructed
NoEnhancer ==
  /\ setups = 0
  /\ sections = 0
  /\ dividers = 0
  /\ classes = <<>>
  /\ clickListeners = 0
  /\ ripples = 0
  /\ lastInserted = NoClick
  /\ followers = 0
  /\ followerActive = FALSE
  /\ heroImage = [transform |-> Unset, filter |-> Unset]
  /\ heroOver = FALSE
  /\ heroListeners = 0
  /\ firstSetup = <<>>

\* the geometry of the page is the fixed one of EffectsSpec
NoGeometry ==
  /\ innerHeight = 0
  /\ rectHeight = 0
  /\ rectTop = 0
  /\ lastProgress = NotHandled

\* the page outside the carousel's frames is not modelled
NoPage ==
  /\ coarsePointer = FALSE
  /\ reducedMotion = FALSE
  /\ NoEffects
  /\ NoEnhancer
  /\ NoGeometry

\* the attributes are not kept: the settings are drawn as the constructor
\* leaves them
NoDataset == <<>>

\* the single layer of Spec is not constructed
NoSoleLayer ==
  /\ settings = CHOOSE x \in SettingsTried : TRUE
  /\ currentFrame = 0
  /\ isPlaying = TRUE
  /\ animationId = "null"
  /\ advTimer = NoTimer
  /\ orphans = <<>>
  /\ frameStyle = <<>>
  /\ rafQueue = <<>>
  /\ cleanups = <<>>
  /\ styleIds = {}
  /\ scrollHandler = FALSE
  /\ scrollListener = FALSE
  /\ hoverListeners = FALSE
  /\ destroyed = FALSE
  /\ destroyCalls = 0
  /\ advances = 0
  /\ everPaused = FALSE
  /\ pausedSnap = NoSnap
  /\ resumeInfo = NoResume
  /\ firedAfter = NoResume
  /\ pointerInside = FALSE
  /\ dataset = NoDataset

\* ---------------------------------------------------------------- Init ---

\* constructor() and init(), the frames found and the settings read
Constructed ==
  /\ currentFrame = 0
  /\ isPlaying = TRUE
  /\ orphans = <<>>
  /\ rafQueue = <<>>
  /\ cleanups = <<>>
  /\ IF frames <= 1
       THEN /\ frameStyle = [i \in FrameIdx |-> UnsetStyle]
            /\ animationId = "null"
            /\ advTimer = NoTimer
            /\ styleIds = {}
            /\ scrollHandler = FALSE
            /\ scrollListener = FALSE
            /\ hoverListeners = FALSE
       ELSE /\ frameStyle = setupTransitions(frames)
            /\ animationId = "id"
            /\ advTimer = scheduleDelay(settings)
            /\ styleIds = IF settings.kenBurnsIntensity > 0
                            THEN setupKenBurnsEffect({}, frames) ELSE {}
            /\ scrollHandler = (settings.parallaxVIntensity > 0)
            /\ scrollListener = (settings.parallaxVIntensity > 0)
            /\ hoverListeners = (settings.zoomIntensity > 0)
  /\ destroyed = FALSE
  /\ destroyCalls = 0
  /\ now = 0
  /\ advances = 0
  /\ everPaused = FALSE
  /\ pausedSnap = NoSnap
  /\ resumeInfo = NoResume
  /\ firedAfter = NoResume
  /\ pointerInside = FALSE
  /\ lastOp = "init"

\* constructor() and init()
Init ==
  /\ frames \in 0 .. MaxFrames
  /\ settings \in SettingsTried
  /\ dataset = NoDataset
  /\ Constructed
  /\ NoManager
  /\ NoPage

\* ------------------------------------------------------------- methods ---

\* a sequence without its k-th element
RemoveAt(seq, k) == [i \in 1 .. (Len(seq) - 1) |-> IF i < k THEN seq[i] ELSE seq[i + 1]]

\* scheduleNextFrame(), called with this.isPlaying = playing while the timer
\* animationId names has `pending` left (NoTimer: fired or cleared) and the
\* other pending frame-advance timers are orph
scheduleNextFrame(playing, pending, orph) ==
  IF ~playing
    THEN /\ animationId' = animationId
         /\ advTimer' = pending
         /\ orphans' = orph
    ELSE /\ animationId' = "id"
         /\ advTimer' = scheduleDelay(settings)
         /\ orphans' = IF pending # NoTimer THEN Append(orph, pending) ELSE orph

\* nextFrame()
nextFrame ==
  IF frames <= 1
    THEN UNCHANGED <<currentFrame, frameStyle, rafQueue>>
    ELSE LET cur == currentFrame
             nxt == nextIndex(currentFrame, frames)
         IN /\ currentFrame' = nxt
            /\ frameStyle' = transitionToFrame(frameStyle, settings.transitionType, cur, nxt)
            /\ rafQueue' = IF UsesAnimationFrame(settings.transitionType)
                             THEN Append(rafQueue, [cur |-> cur, nxt |-> nxt])
                             ELSE rafQueue

\* what pause() and resume() never touch
FramesKept == UNCHANGED <<currentFrame, frameStyle, rafQueue, cleanups>>

\* a pause() that leaves the pending timer running
pauseKeepsTimer ==
  /\ isPlaying' = FALSE
  /\ UNCHANGED <<advTimer, animationId, orphans>>
  /\ FramesKept

\* a pause() that toggles: it restarts the loop of a layer that is paused
pauseToggles ==
  /\ isPlaying' = ~isPlaying
  /\ IF isPlaying
       THEN /\ advTimer' = NoTimer
            /\ animationId' = "null"
            /\ UNCHANGED orphans
       ELSE scheduleNextFrame(TRUE, advTimer, orphans)
  /\ FramesKept

\* pause()
pause ==
  /\ isPlaying' = FALSE
  /\ IF animationId # "null"
       THEN /\ advTimer' = NoTimer
            /\ animationId' = "null"
       ELSE UNCHANGED <<advTimer, animationId>>
  /\ UNCHANGED orphans
  /\ FramesKept

\* a resume() that shows the next frame at once
resumeAdvances ==
  /\ IF ~isPlaying
       THEN /\ isPlaying' = TRUE
            /\ scheduleNextFrame(TRUE, advTimer, orphans)
            /\ nextFrame
            /\ UNCHANGED cleanups
       ELSE /\ UNCHANGED <<isPlaying, animationId, advTimer, orphans>>
            /\ FramesKept

\* a resume() that calls scheduleNextFrame() before it sets isPlaying
resumeSchedulesFirst ==
  /\ IF ~isPlaying
       THEN /\ scheduleNextFrame(isPlaying, advTimer, orphans)
            /\ isPlaying' = TRUE
       ELSE UNCHANGED <<isPlaying, animationId, advTimer, orphans>>
  /\ FramesKept

\* a resume() without the test of isPlaying
resumeUnguarded ==
  /\ isPlaying' = TRUE
  /\ scheduleNextFrame(TRUE, advTimer, orphans)
  /\ FramesKept

\* resume()
resume ==
  /\ IF ~isPlaying
       THEN /\ isPlaying' = TRUE
            /\ scheduleNextFrame(TRUE, advTimer, orphans)
       ELSE UNCHANGED <<isPlaying, animationId, advTimer, orphans>>
  /\ FramesKept

\* destroy()
destroy ==
  /\ pause
  /\ scrollListener' = IF scrollHandler THEN FALSE ELSE scrollListener
  /\ styleIds' = styleIds \ StyleIdsOf(frames)

\* ------------------------------------------------------ history updates ---

\* history kept by every step that runs pause()
PauseHistory ==
  /\ everPaused' = TRUE
  /\ now' = -1
  /\ resumeInfo' = NoResume
  /\ firedAfter' = NoResume
  /\ pausedSnap' = IF isPlaying
                     THEN [taken |-> TRUE, fresh |-> TRUE, index |-> currentFrame,
                           style |-> frameStyle,
                           midInterval |-> advTimer \notin {NoTimer, scheduleDelay(settings)}]
                     ELSE [pausedSnap EXCEPT !.fresh = FALSE]

\* history kept by every step that runs resume()
ResumeHistory ==
  /\ resumeInfo' = IF ~isPlaying
                     THEN [resumed |-> TRUE, since |-> 0, index |-> pausedSnap.index,
                           midInterval |-> pausedSnap.midInterval]
                     ELSE resumeInfo
  /\ pausedSnap' = IF ~isPlaying THEN NoSnap ELSE pausedSnap
  /\ firedAfter' = NoResume
  /\ UNCHANGED <<everPaused, now>>

\* ------------------------------------------------------------- actions ---

\* what no method of the layer changes after construction
Fixed ==
  /\ UNCHANGED <<frames, settings, scrollHandler, hoverListeners, dataset>>
  /\ UNCHANGED managerVars
  /\ UNCHANGED pageVars

AdvanceDue == advTimer = 0 \/ \E k \in 1 .. Len(orphans) : orphans[k] = 0

CleanupDue == \E k \in 1 .. Len(cleanups) : cleanups[k].rem = 0

\* the setTimeout callback of scheduleNextFrame() runs
FrameTimer ==
  \E k \in 0 .. Len(orphans) :
    LET due == IF k = 0 THEN advTimer = 0 ELSE orphans[k] = 0
        pending == IF k = 0 THEN NoTimer ELSE advTimer
        orph == IF k = 0 THEN orphans ELSE RemoveAt(orphans, k)
    IN /\ due
       /\ advances < MaxAdvances
       /\ nextFrame
       /\ scheduleNextFrame(isPlaying, pending, orph)
       /\ advances' = advances + 1
       /\ firedAfter' = resumeInfo
       /\ resumeInfo' = NoResume
       /\ lastOp' = "timer"
       /\ destroyCalls' = 0
       /\ Fixed
       /\ UNCHANGED <<isPlaying, cleanups, styleIds, scrollListener, destroyed,
                      now, everPaused, pausedSnap, pointerInside>>

\* the requestAnimationFrame callback of a slide/zoom/blur transition runs
AnimationFrame ==
  /\ rafQueue # <<>>
  /\ LET h == Head(rafQueue)
     IN /\ frameStyle' = animationFrameCallback(frameStyle, settings.transitionType, h.cur, h.nxt)
        /\ cleanups' = Append(cleanups,
                              [rem |-> getTransitionDuration(settings.transitionType),
                               frame |-> h.cur])
  /\ rafQueue' = Tail(rafQueue)
  /\ lastOp' = "raf"
  /\ destroyCalls' = 0
  /\ firedAfter' = NoResume
  /\ Fixed
  /\ UNCHANGED <<currentFrame, isPlaying, animationId, advTimer, orphans, styleIds,
                 scrollListener, destroyed, now, advances,
                 everPaused, pausedSnap, resumeInfo, pointerInside>>

\* the setTimeout callback of a slide/zoom/blur transition runs.  It was
\* scheduled from an animation frame, later than any frame-advance timer
\* due at the same clock value, so the frame-advance timer runs first.
CleanupTimer ==
  \E k \in 1 .. Len(cleanups) :
    /\ cleanups[k].rem = 0
    /\ ~AdvanceDue
    /\ frameStyle' = cleanupCallback(frameStyle, settings.transitionType, cleanups[k].frame)
    /\ cleanups' = RemoveAt(cleanups, k)
    /\ lastOp' = "cleanup"
    /\ destroyCalls' = 0
    /\ firedAfter' = NoResume
    /\ Fixed
    /\ UNCHANGED <<currentFrame, isPlaying, animationId, advTimer, orphans, rafQueue,
                   styleIds, scrollListener, destroyed, now, advances,
                   everPaused, pausedSnap, resumeInfo, pointerInside>>

Dec(t) == IF t > 0 THEN t - 1 ELSE t

\* 100 ms pass; every callback that is due has run
Tick ==
  /\ now < MaxTime
  /\ rafQueue = <<>>
  /\ ~AdvanceDue
  /\ ~CleanupDue
  /\ now' = IF now >= 0 THEN now + 1 ELSE now
  /\ advTimer' = Dec(advTimer)
  /\ orphans' = [k \in 1 .. Len(orphans) |-> Dec(orphans[k])]
  /\ cleanups' = [k \in 1 .. Len(cleanups) |-> [cleanups[k] EXCEPT !.rem = Dec(@)]]
  /\ resumeInfo' = IF resumeInfo.resumed
                     THEN [resumeInfo EXCEPT !.since = @ + 1] ELSE resumeInfo
  /\ firedAfter' = NoResume
  /\ lastOp' = "tick"
  /\ destroyCalls' = 0
  /\ Fixed
  /\ UNCHANGED <<currentFrame, isPlaying, animationId, frameStyle, rafQueue, styleIds,
                 scrollListener, destroyed, advances, everPaused, pausedSnap,
                 pointerInside>>

\* what a call of pause() or resume() leaves alone
CallFrame ==
  /\ Fixed
  /\ destroyCalls' = 0
  /\ UNCHANGED <<styleIds, scrollListener, destroyed, advances>>

\* layer.pause() is called
Pause ==
  /\ pause
  /\ PauseHistory
  /\ lastOp' = "pause"
  /\ CallFrame
  /\ UNCHANGED pointerInside

\* layer.resume() is called
Resume ==
  /\ resume
  /\ ResumeHistory
  /\ lastOp' = "resume"
  /\ CallFrame
  /\ UNCHANGED pointerInside

\* HeroCarouselManager.pauseAll(), the layer being tracked
PauseAll ==
  /\ pause
  /\ PauseHistory
  /\ lastOp' = "pauseAll"
  /\ CallFrame
  /\ UNCHANGED pointerInside

\* HeroCarouselManager.resumeAll(), the layer being tracked
ResumeAll ==
  /\ resume
  /\ ResumeHistory
  /\ lastOp' = "resumeAll"
  /\ CallFrame
  /\ UNCHANGED pointerInside

\* the pointer enters an element whose mouseenter listener does nothing
MouseEnterNoPause ==
  /\ hoverListeners
  /\ ~pointerInside
  /\ pointerInside' = TRUE
  /\ lastOp' = "mouseenter"
  /\ UNCHANGED <<isPlaying, advTimer, animationId, orphans, everPaused, now, resumeInfo,
                 firedAfter, pausedSnap>>
  /\ FramesKept
  /\ CallFrame

\* the pointer enters the element: the mouseenter listener of init() runs
MouseEnter ==
  /\ hoverListeners
  /\ ~pointerInside
  /\ pointerInside' = TRUE
  /\ pause
  /\ PauseHistory
  /\ lastOp' = "mouseenter"
  /\ CallFrame

\* the pointer leaves the element: the mouseleave listener of init() runs
MouseLeave ==
  /\ hoverListeners
  /\ pointerInside
  /\ pointerInside' = FALSE
  /\ resume
  /\ ResumeHistory
  /\ lastOp' = "mouseleave"
  /\ CallFrame

\* layer.destroy() is called
Destroy ==
  /\ destroyCalls < MaxDestroyCalls
  /\ destroyCalls' = destroyCalls + 1
  /\ destroyed' = TRUE
  /\ destroy
  /\ PauseHistory
  /\ lastOp' = "destroy"
  /\ Fixed
  /\ UNCHANGED <<advances, pointerInside>>

Next ==
  \/ FrameTimer
  \/ AnimationFrame
  \/ CleanupTimer
  \/ Tick
  \/ Pause
  \/ Resume
  \/ PauseAll
  \/ ResumeAll
  \/ MouseEnter
  \/ MouseLeave
  \/ Destroy

Spec == Init /\ [][Next]_vars

\* the operations that run pause()
PauseOps == {"pause", "pauseAll", "mouseenter", "destroy"}

\* the operations that run resume()
ResumeOps == {"resume", "resumeAll", "mouseleave"}

\* ============================================================ ManagerSpec ===
\* HeroCarouselManager and the layers it constructs.  A layer is a record
\* here; its frame styles are those of Spec and are left out, and so are
\* pauseAll() and resumeAll(), which Spec has.

\* the delay refresh() passes to setTimeout: 100 ms
RefreshDelay == 1

\* the carousel elements tried: data-carousel-id, the number of frames in the
\* container and the settings the constructor reads; two of them carry the
\* same data-carousel-id
Elements ==
  {[carouselId |-> "a", frames |-> 2,
    settings |-> [frameDuration |-> 5, transitionType |-> "slide", zoomIntensity |-> 0,
                  parallaxVIntensity |-> 0, kenBurnsIntensity |-> 5]],
   [carouselId |-> "b", frames |-> 2,
    settings |-> [frameDuration |-> 5, transitionType |-> "fade", zoomIntensity |-> 0,
                  parallaxVIntensity |-> 0, kenBurnsIntensity |-> 5]],
   [carouselId |-> "a", frames |-> 1,
    settings |-> [frameDuration |-> 3, transitionType |-> "fade", zoomIntensity |-> 0,
                  parallaxVIntensity |-> 0, kenBurnsIntensity |-> 0]]}

\* the pages tried: up to MaxElements different elements in any order
Pages ==
  {p \in UNION {[1 .. n -> Elements] : n \in 0 .. MaxElements} :
     \A i, j \in DOMAIN p : i # j => p[i] # p[j]}

\* the values of a function
Range(f) == {f[x] : x \in DOMAIN f}

\* the pages the editor can make of page p by rendering one section: a
\* carousel element is rendered again in its place, or appears at some place
PagesAfterLoad(p) ==
  {q \in Pages :
     \/ /\ Len(q) = Len(p)
        /\ \E k \in DOMAIN p : \A j \in DOMAIN p : j # k => q[j] = p[j]
     \/ /\ Len(q) = Len(p) + 1
        /\ \E k \in DOMAIN q :
             \A j \in DOMAIN p : q[IF j < k THEN j ELSE j + 1] = p[j]}

\* the <style> element setupKenBurnsEffect() creates for frame i of the layer
\* numbered owner: its id, the name of the @keyframes rule it defines, and
\* (history) the layer that created it
kenBurnsStyle(cid, i, owner) ==
  [id |-> <<"ken-burns", cid, i>>, keyframes |-> <<"kenBurns", i>>, owner |-> owner]

\* setupKenBurnsEffect() of the layer numbered owner on element el:
\* document.head when it returns
setupKenBurnsEffectIn(head, el, owner) ==
  head \o SelectSeq([k \in 1 .. el.frames |-> kenBurnsStyle(el.carouselId, k - 1, owner)],
                    LAMBDA st : \A h \in 1 .. Len(head) : head[h].id # st.id)

\* img.style.animation of frame i, as setupKenBurnsEffect() sets it: the name
\* of the @keyframes rule it refers to
animationName(i) == <<"kenBurns", i>>

\* new HeroCarouselLayer(el): the layer when the constructor returns
newLayer(el) ==
  [el |-> el,
   settings |-> el.settings,
   currentFrame |-> 0,
   isPlaying |-> TRUE,
   animationId |-> IF el.frames <= 1 THEN "null" ELSE "id",
   advTimer |-> IF el.frames <= 1 THEN NoTimer ELSE scheduleDelay(el.settings),
   rafPending |-> 0,
   cleanups |-> <<>>,
   destroyed |-> FALSE]

\* new HeroCarouselLayer(el): document.head when the constructor returns
newLayerStyles(head, el, owner) ==
  IF el.frames > 1 /\ el.settings.kenBurnsIntensity > 0
    THEN setupKenBurnsEffectIn(head, el, owner)
    ELSE head

\* layer.pause()
pauseOf(l) ==
  [l EXCEPT !.isPlaying = FALSE,
            !.advTimer = IF l.animationId # "null" THEN NoTimer ELSE @,
            !.animationId = "null"]

\* layer.resume(); a paused layer has no frame-advance timer pending, pause()
\* cleared it
resumeOf(l) ==
  IF ~l.isPlaying
    THEN [l EXCEPT !.isPlaying = TRUE,
                   !.animationId = "id",
                   !.advTimer = scheduleDelay(l.settings)]
    ELSE l

\* layer.destroy(): the layer when it returns
destroyOf(l) == [pauseOf(l) EXCEPT !.destroyed = TRUE]

\* layer.destroy(): document.head when it returns
destroyStyles(head, l) ==
  SelectSeq(head, LAMBDA st :
    st.id \notin {<<"ken-burns", l.el.carouselId, i>> : i \in 0 .. (l.el.frames - 1)})

\* the setTimeout callback of scheduleNextFrame(): nextFrame(), then
\* scheduleNextFrame()
advanceOf(l) ==
  LET moved == IF l.el.frames <= 1
                 THEN l
                 ELSE [l EXCEPT !.currentFrame = nextIndex(@, l.el.frames),
                                !.rafPending = IF UsesAnimationFrame(l.settings.transitionType)
                                                 THEN @ + 1 ELSE @]
  IN IF moved.isPlaying
       THEN [moved EXCEPT !.animationId = "id", !.advTimer = scheduleDelay(l.settings)]
       ELSE [moved EXCEPT !.advTimer = NoTimer]

\* the manager's state while setupCarousels() or refresh() runs
ManagerState(map, ls, head) == [carousels |-> map, layers |-> ls, head |-> head]

\* setupCarousels(): a forEach callback that constructs a layer for every element
mountElementUnchecked(st, el) ==
  LET num == Len(st.layers) + 1
  IN ManagerState([id \in DOMAIN st.carousels \cup {el.carouselId} |->
                     IF id = el.carouselId THEN num ELSE st.carousels[id]],
                  Append(st.layers, newLayer(el)),
                  newLayerStyles(st.head, el, num))

\* setupCarousels(): the forEach callback, for one element
mountElement(st, el) ==
  IF el.carouselId \in DOMAIN st.carousels
    THEN st
    ELSE LET num == Len(st.layers) + 1
         IN ManagerState([id \in DOMAIN st.carousels \cup {el.carouselId} |->
                            IF id = el.carouselId THEN num ELSE st.carousels[id]],
                         Append(st.layers, newLayer(el)),
                         newLayerStyles(st.head, el, num))

\* setupCarousels(): the elements from the k-th on
RECURSIVE mountFrom(_, _, _)
mountFrom(st, els, k) ==
  IF k > Len(els) THEN st ELSE mountFrom(mountElement(st, els[k]), els, k + 1)

\* setupCarousels()
setupCarousels ==
  LET st == mountFrom(ManagerState(carousels, layers, headStyles), dom, 1)
  IN /\ carousels' = st.carousels
     /\ layers' = st.layers
     /\ headStyles' = st.head
     /\ discoveries' = IF discoveries < 2 THEN discoveries + 1 ELSE 2

\* refresh(): destroy() of the tracked layers, from the k-th identifier on
RECURSIVE destroyFrom(_, _, _)
destroyFrom(st, ids, k) ==
  IF k > Len(ids)
    THEN st
    ELSE LET num == st.carousels[ids[k]]
         IN destroyFrom(ManagerState(st.carousels,
                                     [st.layers EXCEPT ![num] = destroyOf(@)],
                                     destroyStyles(st.head, st.layers[num])),
                        ids, k + 1)

\* the identifiers of a map in some order
RECURSIVE KeysOf(_)
KeysOf(map) ==
  IF DOMAIN map = {}
    THEN <<>>
    ELSE LET id == CHOOSE x \in DOMAIN map : TRUE
         IN <<id>> \o KeysOf([y \in DOMAIN map \ {id} |-> map[y]])

\* refresh()
refresh ==
  LET st == destroyFrom(ManagerState(carousels, layers, headStyles), KeysOf(carousels), 1)
  IN /\ layers' = st.layers
     /\ headStyles' = st.head
     /\ carousels' = <<>>
     /\ refreshTimers' = Append(refreshTimers, RefreshDelay)
     /\ discoveries' = 0
     /\ freshFrom' = Len(layers)

\* new HeroCarouselManager() on a page
ManagerInit ==
  /\ dom \in Pages
  /\ LET st == mountFrom(ManagerState(<<>>, <<>>, <<>>), dom, 1)
     IN /\ carousels = st.carousels
        /\ layers = st.layers
        /\ headStyles = st.head
  /\ refreshTimers = <<>>
  /\ discoveries = 1
  /\ freshFrom = 0
  /\ refreshes = 0
  /\ now = 0
  /\ lastOp = "init"
  /\ frames = 0
  /\ NoSoleLayer
  /\ NoPage

\* what a step of the manager leaves alone
ManagerFrame == UNCHANGED <<soleLayerVars, lastOp, pageVars>>

\* manager.setupCarousels() is called
SetupCarouselsCall ==
  /\ setupCarousels
  /\ ManagerFrame
  /\ UNCHANGED <<dom, refreshTimers, freshFrom, refreshes, now>>

\* 'shopify:section:load': the editor has rendered a section again, and the
\* listener of init() calls refresh()
SectionLoad ==
  /\ refreshes < MaxRefreshes
  /\ refreshes' = refreshes + 1
  /\ dom' \in PagesAfterLoad(dom)
  /\ refresh
  /\ ManagerFrame
  /\ UNCHANGED now

\* 'shopify:section:reorder': the editor has moved a section, and the listener
\* of init() calls refresh()
SectionReorder ==
  /\ refreshes < MaxRefreshes
  /\ refreshes' = refreshes + 1
  /\ dom' \in {p \in Pages : Range(p) = Range(dom) /\ p # dom}
  /\ refresh
  /\ ManagerFrame
  /\ UNCHANGED now

\* the setTimeout callback of refresh() runs
RefreshTimer ==
  /\ refreshTimers # <<>>
  /\ Head(refreshTimers) = 0
  /\ refreshTimers' = Tail(refreshTimers)
  /\ setupCarousels
  /\ ManagerFrame
  /\ UNCHANGED <<dom, freshFrom, refreshes, now>>

\* what a callback of a layer leaves alone
LayerFrame ==
  /\ ManagerFrame
  /\ UNCHANGED <<dom, carousels, headStyles, refreshTimers, discoveries, freshFrom,
                 refreshes, now>>

\* the frame-advance timer of a layer fires
LayerFrameTimer ==
  \E i \in DOMAIN layers :
    /\ layers[i].advTimer = 0
    /\ layers' = [layers EXCEPT ![i] = advanceOf(@)]
      /\ LayerFrame

\* the requestAnimationFrame callback of a layer's transition runs and
\* schedules the cleanup
LayerAnimationFrame ==
  \E i \in DOMAIN layers :
    /\ layers[i].rafPending > 0
    /\ layers' = [layers EXCEPT ![i].rafPending = @ - 1,
                                ![i].cleanups = Append(@,
                                   getTransitionDuration(layers[i].settings.transitionType))]
      /\ LayerFrame

\* the setTimeout cleanup of a layer's transition runs
LayerCleanupTimer ==
  \E i \in DOMAIN layers :
    /\ layers[i].cleanups # <<>>
    /\ Head(layers[i].cleanups) = 0
    /\ layers' = [layers EXCEPT ![i].cleanups = Tail(@)]
      /\ LayerFrame

\* a callback of some layer or of the manager is due
ManagerDue ==
  \/ \E i \in DOMAIN layers :
       \/ layers[i].advTimer = 0
       \/ layers[i].rafPending > 0
       \/ \E k \in DOMAIN layers[i].cleanups : layers[i].cleanups[k] = 0
  \/ \E k \in DOMAIN refreshTimers : refreshTimers[k] = 0

\* 100 ms pass; every callback that is due has run
ManagerTick ==
  /\ ~ManagerDue
  /\ layers' = [i \in DOMAIN layers |->
                  [layers[i] EXCEPT !.advTimer = Dec(@),
                                    !.cleanups = [k \in DOMAIN @ |-> Dec(@[k])]]]
  /\ refreshTimers' = [k \in DOMAIN refreshTimers |-> Dec(refreshTimers[k])]
  /\ ManagerFrame
  /\ UNCHANGED <<dom, carousels, headStyles, discoveries, freshFrom, refreshes, now>>

ManagerNext ==
  \/ SetupCarouselsCall
  \/ SectionLoad
  \/ SectionReorder
  \/ RefreshTimer
  \/ LayerFrameTimer
  \/ LayerAnimationFrame
  \/ LayerCleanupTimer
  \/ ManagerTick

ManagerSpec == ManagerInit /\ [][ManagerNext]_vars

\* ============================================================= ConfigSpec ===
\* The constructor's reading of element.dataset.  An attribute is absent
\* (undefined) or has a text; a numeric attribute's text is a sequence of
\* characters, a transition type's text is taken whole, the code only
\* compares it.  Numbers are kept in tenths: the texts tried have at most one
\* decimal, no exponent and no negative number (a negative frame duration
\* makes a timer loop with no delay).

Absent == [present |-> FALSE]

Text(t) == [present |-> TRUE, text |-> t]

NaN == [nan |-> TRUE]

Number(tenths) == [nan |-> FALSE, tenths |-> tenths]

DigitChars == <<"0", "1", "2", "3", "4", "5", "6", "7", "8", "9">>

IsDigit(c) == \E d \in DOMAIN DigitChars : DigitChars[d] = c

DigitValue(c) == (CHOOSE d \in DOMAIN DigitChars : DigitChars[d] = c) - 1

\* the first position from i on that holds no white space
RECURSIVE SkipSpaces(_, _)
SkipSpaces(t, i) ==
  IF i <= Len(t) /\ t[i] = " " THEN SkipSpaces(t, i + 1) ELSE i

\* the first position from i on that holds no digit
RECURSIVE DigitsEnd(_, _)
DigitsEnd(t, i) ==
  IF i <= Len(t) /\ IsDigit(t[i]) THEN DigitsEnd(t, i + 1) ELSE i

\* the number the digits t[i], ..., t[j - 1] write
RECURSIVE NumberOf(_, _, _)
NumberOf(t, i, j) ==
  IF i >= j THEN 0 ELSE NumberOf(t, i, j - 1) * 10 + DigitValue(t[j - 1])

\* parseFloat(value): white space, a sign, digits, a point and digits; the
\* longest such prefix, NaN when it has no digit.  undefined gives NaN.
parseFloat(attr) ==
  IF ~attr.present
    THEN NaN
    ELSE LET t == attr.text
             s == SkipSpaces(t, 1)
             negative == s <= Len(t) /\ t[s] = "-"
             a == IF s <= Len(t) /\ t[s] \in {"-", "+"} THEN s + 1 ELSE s
             b == DigitsEnd(t, a)
             point == b <= Len(t) /\ t[b] = "."
             c == IF point THEN DigitsEnd(t, b + 1) ELSE b
             decimals == IF point THEN c - (b + 1) ELSE 0
             tenths == NumberOf(t, a, b) * 10
                         + (IF decimals > 0 THEN DigitValue(t[b + 1]) ELSE 0)
         IN IF b - a = 0 /\ decimals = 0
              THEN NaN
              ELSE Number(IF negative THEN 0 - tenths ELSE tenths)

\* the default frame duration: 3000 ms
DefaultFrameDuration == 30

\* a frame duration with no default: NaN makes setTimeout fire at once
frameDurationOfNoDefault(attr) ==
  LET v == parseFloat(attr)
  IN IF v.nan THEN 0 ELSE v.tenths

\* parseFloat(element.dataset.frameDuration) * 1000 || 3000, in units of
\* 100 ms: NaN and 0 are falsy
frameDurationOf(attr) ==
  LET v == parseFloat(attr)
  IN IF v.nan \/ v.tenths = 0 THEN DefaultFrameDuration ELSE v.tenths

\* element.dataset.transitionType || 'fade': undefined and '' are falsy
transitionTypeOf(attr) ==
  IF ~attr.present \/ attr.text = "" THEN "fade" ELSE attr.text

\* parseFloat(element.dataset.<x>Intensity) || 0, for a text that writes a
\* whole number or no number
intensityOf(attr) ==
  LET v == parseFloat(attr)
  IN IF v.nan THEN 0 ELSE v.tenths \div 10

\* this.settings, lines 23-32
settingsOf(d) ==
  [frameDuration |-> frameDurationOf(d.frameDuration),
   transitionType |-> transitionTypeOf(d.transitionType),
   zoomIntensity |-> intensityOf(d.zoomIntensity),
   parallaxVIntensity |-> intensityOf(d.parallaxVIntensity),
   kenBurnsIntensity |-> intensityOf(d.kenBurnsIntensity)]

\* the texts tried that write no number
NoNumberTexts == {<<>>, <<"a", "b", "c">>, <<"-">>, <<".">>, <<" ">>, <<"s", "1">>}

\* data-frame-duration: absent, no number, and 0, 1, 1.3, .5, " 1", "1s", "1."
FrameDurationTexts ==
  NoNumberTexts \cup {<<"0">>, <<"1">>, <<"1", ".", "3">>, <<".", "5">>, <<" ", "1">>,
                      <<"1", "s">>, <<"1", ".">>}

\* data-*-intensity: absent, no number, and 0, 5, "+5", "5x"
IntensityTexts == NoNumberTexts \cup {<<"0">>, <<"5">>, <<"+", "5">>, <<"5", "x">>}

\* data-transition-type: absent, empty, the four kinds and texts that name none
TransitionTypeTexts == {"", "fade", "slide", "zoom", "blur", "wipe", "Fade", "slide "}

\* the datasets tried; the three intensities have the same attribute
DatasetsTried ==
  {[frameDuration |-> f, transitionType |-> t, zoomIntensity |-> e,
    parallaxVIntensity |-> e, kenBurnsIntensity |-> e] :
     f \in {Absent} \cup {Text(x) : x \in FrameDurationTexts},
     t \in {Absent} \cup {Text(x) : x \in TransitionTypeTexts},
     e \in {Absent} \cup {Text(x) : x \in IntensityTexts}}

\* constructor() and init() on an element with one of the datasets
ConfigInit ==
  /\ frames \in 0 .. MaxFrames
  /\ dataset \in DatasetsTried
  /\ settings = settingsOf(dataset)
  /\ Constructed
  /\ NoManager
  /\ NoPage

\* the timers and callbacks of a layer that nothing pauses
ConfigNext ==
  \/ FrameTimer
  \/ AnimationFrame
  \/ CleanupTimer
  \/ Tick

ConfigSpec == ConfigInit /\ [][ConfigNext]_vars

\* ============================================================ EffectsSpec ===
\* The scroll and pointer handlers: one layer with more than one frame and its
\* image modifiers (setupEffects), and the scroll parallax that
\* ModernAnimations.setup() attaches.  The layer's timer loop is Spec's and is
\* left out here.  Lengths are in px, scales in hundredths, scroll progress in
\* thousandths.

\* most runs of one handler's body counted within one animation frame or
\* throttle interval
MaxRuns == 2

EffectSettingsTried ==
  [zoomIntensity : Intensities, parallaxVIntensity : Intensities,
   parallaxHIntensity : Intensities, tiltIntensity : Intensities,
   blurFocusIntensity : Intensities]

\* window.innerHeight
WindowHeight == 600

\* rect.height of the layer's element
ElementHeight == 400

\* rect.top of the layer's element while the page is not scrolled
ElementTop == 700

\* the values of window.pageYOffset tried: the element below the viewport,
\* in the middle of its way through it, and above it
ScrollPositions == {0, 600, 1400}

\* pointer positions relative to the element's centre, in halves of its
\* width and height: the centre and a corner
PointerPositions == {<<0, 0>>, <<1, 0 - 1>>}

\* one function of a transform or filter list
Fn(name, arg) == [fn |-> name, arg |-> arg]

Min(a, b) == IF a < b THEN a ELSE b

Max(a, b) == IF a > b THEN a ELSE b

\* setupZoomEffect(): zoomScale
zoomScale(st) == 100 + st.zoomIntensity * 2

\* the mouseenter listener of setupZoomEffect()
zoomEnter(st, style) == [style EXCEPT !.transform = <<Fn("scale", zoomScale(st))>>]

\* the mouseleave listener of setupZoomEffect()
zoomLeave(st, style) == [style EXCEPT !.transform = <<Fn("scale", 100)>>]

\* getBoundingClientRect().top of the layer's element at a scroll position
elementTop(y) == ElementTop - y

\* handleScroll: scrollProgress, for rect.top, window.innerHeight and
\* rect.height
scrollProgressOf(top, windowHeight, elementHeight) ==
  Max(0, Min(1000, ((windowHeight - top) * 1000) \div (windowHeight + elementHeight)))

\* handleScroll: scrollProgress in the page of EffectsSpec
scrollProgress(top) == scrollProgressOf(top, WindowHeight, ElementHeight)

\* handleScroll: vOffset, hOffset
parallaxOffset(p, intensity) == ((p - 500) * intensity) \div 100

\* handleScroll: currentTransform.match(/scale\([^)]*\)/), 'scale(1)' if none
scaleTransform(transform) ==
  LET scaleMatch == SelectSeq(transform, LAMBDA t : t.fn = "scale")
  IN IF scaleMatch = <<>> THEN Fn("scale", 100) ELSE scaleMatch[1]

\* handleScroll: the translation it writes for a scroll progress
translateOf(st, p) ==
  Fn("translate3d", <<parallaxOffset(p, st.parallaxHIntensity),
                      parallaxOffset(p, st.parallaxVIntensity)>>)

\* handleScroll: the translation it writes at a scroll position
parallaxTranslate(st, y) == translateOf(st, scrollProgress(elementTop(y)))

\* handleScroll: the style it writes for a scroll progress
applyParallax(st, style, p) ==
  [style EXCEPT !.transform = <<translateOf(st, p), scaleTransform(style.transform)>>]

\* the body of handleScroll
handleScroll(st, style, y) == applyParallax(st, style, scrollProgress(elementTop(y)))

\* throttle(fn, 16): a call runs fn unless fn ran within the last 16 ms
throttle(isThrottled) == ~isThrottled

\* setupEffects(): the scroll listener is added for a parallax intensity
parallaxEnabled(st) == st.parallaxVIntensity > 0 \/ st.parallaxHIntensity > 0

\* setupTiltEffect(): maxTilt
maxTilt(st) == st.tiltIntensity * 2

\* the rotations the mousemove listener writes for a pointer position
tiltRotate(st, pos) ==
  <<Fn("rotateX", (pos[2] * maxTilt(st)) \div 2),
    Fn("rotateY", (0 - pos[1] * maxTilt(st)) \div 2)>>

\* the mousemove listener of setupTiltEffect()
tiltMove(st, style, pos) ==
  [style EXCEPT !.transform = <<Fn("perspective", 1000)>> \o tiltRotate(st, pos)
                                \o <<Fn("scale", 102)>>]

\* the mouseleave listener of setupTiltEffect()
tiltLeave(st, style) ==
  [style EXCEPT !.transform = <<Fn("perspective", 1000), Fn("rotateX", 0),
                                Fn("rotateY", 0), Fn("scale", 100)>>]

\* setupBlurFocusEffect(): maxBlur
maxBlur(st) == st.blurFocusIntensity * 2

\* setupBlurFocusEffect(): the initial blur and the mouseleave listener
blurRest(st, style) == [style EXCEPT !.filter = <<Fn("blur", maxBlur(st))>>]

\* the mouseenter listener of setupBlurFocusEffect()
blurEnter(st, style) == [style EXCEPT !.filter = <<Fn("blur", 0)>>]

\* what a listener that may not have been added leaves of a style
Listener(enabled, after, style) == IF enabled THEN after ELSE style

\* ModernAnimations.setupParallax() with no check of the motion preference
setupParallaxAlways(listeners, reduced) == listeners + 1

\* ModernAnimations.setupParallax(): the scroll listeners after it
setupParallax(listeners, reduced) == IF reduced THEN listeners ELSE listeners + 1

\* updateParallax: the transform of the .parallax-bg elements
updateParallax(y) == <<Fn("translateY", 0 - (y \div 2))>>

Count(n) == Min(n, MaxRuns)

EffectsInit ==
  /\ coarsePointer \in BOOLEAN
  /\ reducedMotion \in BOOLEAN
  /\ effectSettings \in EffectSettingsTried
  /\ imgStyle = Listener(effectSettings.blurFocusIntensity > 0,
                         blurRest(effectSettings, [transform |-> Unset, filter |-> Unset]),
                         [transform |-> Unset, filter |-> Unset])
  /\ pointerOver = FALSE
  /\ throttled = FALSE
  /\ ticking = FALSE
  /\ parallaxRequests = 0
  /\ parallaxListeners = setupParallax(0, reducedMotion)
  /\ parallaxBg = Unset
  /\ scrollY = 0
  /\ bodyRuns = [tilt |-> 0, parallax |-> 0, enhancer |-> 0]
  /\ lastMove = NoMove
  /\ handledY = NotHandled
  /\ NoEnhancer
  /\ NoGeometry
  /\ NoManager
  /\ frames = 2
  /\ NoSoleLayer
  /\ now = 0
  /\ lastOp = "init"

\* what a scroll or pointer step leaves alone
EffectsFrame ==
  UNCHANGED <<soleLayerVars, lastOp, now, managerVars, agentVars, enhancerVars,
              geometryVars, effectSettings, parallaxListeners>>

\* a 'scroll' event of the window: requestTick of setupParallax() if it is
\* attached, and the throttled handleScroll of the layer
WindowScroll(y) ==
  /\ y # scrollY
  /\ scrollY' = y
  /\ IF parallaxListeners > 0 /\ ~ticking
       THEN /\ parallaxRequests' = parallaxRequests + 1
            /\ ticking' = TRUE
       ELSE UNCHANGED <<parallaxRequests, ticking>>
  /\ IF parallaxEnabled(effectSettings) /\ throttle(throttled)
       THEN /\ imgStyle' = handleScroll(effectSettings, imgStyle, y)
            /\ throttled' = TRUE
            /\ handledY' = y
            /\ bodyRuns' = [bodyRuns EXCEPT !.parallax = Count(@ + 1)]
       ELSE UNCHANGED <<imgStyle, throttled, handledY, bodyRuns>>
  /\ UNCHANGED <<pointerOver, parallaxBg, lastMove>>
  /\ EffectsFrame

\* 16 ms after the body of handleScroll ran
ThrottleElapsed ==
  /\ throttled
  /\ throttled' = FALSE
  /\ bodyRuns' = [bodyRuns EXCEPT !.parallax = 0]
  /\ UNCHANGED <<imgStyle, pointerOver, ticking, parallaxRequests, parallaxBg, scrollY,
                 lastMove, handledY>>
  /\ EffectsFrame

\* the next animation frame begins: the requested updateParallax callbacks run
DisplayFrame ==
  /\ bodyRuns.tilt > 0 \/ bodyRuns.enhancer > 0 \/ parallaxRequests > 0
  /\ IF parallaxRequests > 0
       THEN /\ parallaxBg' = updateParallax(scrollY)
            /\ ticking' = FALSE
       ELSE UNCHANGED <<parallaxBg, ticking>>
  /\ parallaxRequests' = 0
  /\ bodyRuns' = [bodyRuns EXCEPT !.tilt = 0, !.enhancer = Count(parallaxRequests)]
  /\ UNCHANGED <<imgStyle, pointerOver, throttled, scrollY, lastMove, handledY>>
  /\ EffectsFrame

\* 'mouseenter' on the layer's element: the listeners of setupZoomEffect()
\* and setupBlurFocusEffect(), in the order setupEffects() added them
ElementMouseEnter ==
  /\ ~pointerOver
  /\ pointerOver' = TRUE
  /\ LET st == effectSettings
         zoomed == Listener(st.zoomIntensity > 0, zoomEnter(st, imgStyle), imgStyle)
     IN imgStyle' = Listener(st.blurFocusIntensity > 0, blurEnter(st, zoomed), zoomed)
  /\ UNCHANGED <<throttled, ticking, parallaxRequests, parallaxBg, scrollY, bodyRuns,
                 lastMove, handledY>>
  /\ EffectsFrame

\* 'mousemove' on the layer's element: the listener of setupTiltEffect()
ElementMouseMove(pos) ==
  /\ pointerOver
  /\ pos # lastMove
  /\ IF effectSettings.tiltIntensity > 0
       THEN /\ imgStyle' = tiltMove(effectSettings, imgStyle, pos)
            /\ bodyRuns' = [bodyRuns EXCEPT !.tilt = Count(@ + 1)]
       ELSE UNCHANGED <<imgStyle, bodyRuns>>
  /\ lastMove' = pos
  /\ UNCHANGED <<pointerOver, throttled, ticking, parallaxRequests, parallaxBg, scrollY,
                 handledY>>
  /\ EffectsFrame

\* 'mouseleave' on the layer's element: the listeners of setupZoomEffect(),
\* setupTiltEffect() and setupBlurFocusEffect(), in that order
ElementMouseLeave ==
  /\ pointerOver
  /\ pointerOver' = FALSE
  /\ LET st == effectSettings
         zoomed == Listener(st.zoomIntensity > 0, zoomLeave(st, imgStyle), imgStyle)
         tilted == Listener(st.tiltIntensity > 0, tiltLeave(st, zoomed), zoomed)
     IN imgStyle' = Listener(st.blurFocusIntensity > 0, blurRest(st, tilted), tilted)
  /\ lastMove' = NoMove
  /\ UNCHANGED <<throttled, ticking, parallaxRequests, parallaxBg, scrollY, bodyRuns,
                 handledY>>
  /\ EffectsFrame

EffectsNext ==
  \/ \E y \in ScrollPositions : WindowScroll(y)
  \/ ThrottleElapsed
  \/ DisplayFrame
  \/ ElementMouseEnter
  \/ \E pos \in PointerPositions : ElementMouseMove(pos)
  \/ ElementMouseLeave

EffectsSpec == EffectsInit /\ [][EffectsNext]_vars

\* =========================================================== EnhancerSpec ===
\* ModernAnimations (src/unnamed/part_000, lines 228-552) on a page with some
\* .section elements in one parent, one .button, one .product-card that is the
\* first child of its parent, one h2, one .cart-drawer and one .hero__image in
\* a .hero container.  The constructor runs setup() once; setup() is public and
\* the page may call it again.  The IntersectionObserver callbacks and the
\* position of the cursor follower are left out.

\* most invocations of setup()
MaxSetups == 2

\* most .section elements of the page
MaxSections == 3

\* most ripple elements in the button at once
MaxRipples == 4

\* the elements whose classList setup() writes
PageElements == {"button", "card", "heading", "drawer"}

\* the classes setup() adds to an element: 'interactive-element'
\* (setupInteractiveElements), 'text-gradient' (setupAdvancedHovers),
\* 'modern-card', 'float-animation' and 'glass-effect' (setupModernCards)
addedClasses(e) ==
  CASE e = "button" -> {"interactive-element"}
    [] e = "card" -> {"modern-card", "float-animation"}
    [] e = "heading" -> {"text-gradient"}
    [] e = "drawer" -> {"glass-effect"}

\* classList.add on every element
addClasses(cl) == [e \in PageElements |-> cl[e] \cup addedClasses(e)]

\* setupModernCards(): a divider is inserted before every section but the first
insertDividers(n, present) == present + Max(n - 1, 0)

\* setupCursorFollower(): the follower is created for a fine hovering pointer
setupCursorFollower(present, coarse) == IF coarse THEN present ELSE present + 1

\* the mouseenter listener of setupAdvancedHovers()
heroEnter(style, reduced) ==
  IF reduced THEN style
  ELSE [transform |-> <<Fn("scale", 110)>>, filter |-> <<Fn("brightness", 110)>>]

\* the mouseleave listener of setupAdvancedHovers()
heroLeave(style) == [transform |-> Unset, filter |-> Unset]

\* setup(), as it changes the page
EnhancerSetup ==
  /\ setups' = setups + 1
  /\ classes' = addClasses(classes)
  /\ dividers' = insertDividers(sections, dividers)
  /\ clickListeners' = clickListeners + 1
  /\ followers' = setupCursorFollower(followers, coarsePointer)
  /\ heroListeners' = heroListeners + 1
  /\ parallaxListeners' = setupParallax(parallaxListeners, reducedMotion)

EnhancerInit ==
  /\ coarsePointer \in BOOLEAN
  /\ reducedMotion \in BOOLEAN
  /\ sections \in 0 .. MaxSections
  /\ setups = 1
  /\ classes = addClasses([e \in PageElements |-> {}])
  /\ dividers = insertDividers(sections, 0)
  /\ clickListeners = 1
  /\ followers = setupCursorFollower(0, coarsePointer)
  /\ heroListeners = 1
  /\ parallaxListeners = setupParallax(0, reducedMotion)
  /\ ripples = 0
  /\ lastInserted = NoClick
  /\ followerActive = FALSE
  /\ heroImage = [transform |-> Unset, filter |-> Unset]
  /\ heroOver = FALSE
  /\ firstSetup = [dividers |-> dividers, classes |-> classes]
  /\ effectSettings = <<>>
  /\ imgStyle = [transform |-> Unset, filter |-> Unset]
  /\ pointerOver = FALSE
  /\ throttled = FALSE
  /\ ticking = FALSE
  /\ parallaxRequests = 0
  /\ parallaxBg = Unset
  /\ scrollY = 0
  /\ bodyRuns = [tilt |-> 0, parallax |-> 0, enhancer |-> 0]
  /\ lastMove = NoMove
  /\ handledY = NotHandled
  /\ NoGeometry
  /\ NoManager
  /\ frames = 0
  /\ NoSoleLayer
  /\ now = 0
  /\ lastOp = "init"

\* what a step of the enhancer leaves alone
EnhancerFrame ==
  UNCHANGED <<soleLayerVars, lastOp, now, managerVars, agentVars, sections, firstSetup,
              geometryVars,
              effectSettings, imgStyle, pointerOver, throttled, ticking, parallaxRequests,
              parallaxBg, scrollY, bodyRuns, lastMove, handledY>>

\* the page calls setup() again
SetupAgain ==
  /\ setups < MaxSetups
  /\ EnhancerSetup
  /\ UNCHANGED <<ripples, lastInserted, followerActive, heroImage, heroOver>>
  /\ EnhancerFrame

\* 'click' on the button: every click listener appends a ripple and sets the
\* 600 ms timer that removes it
ButtonClick ==
  /\ ripples + clickListeners <= MaxRipples
  /\ ripples' = ripples + clickListeners
  /\ lastInserted' = clickListeners
  /\ UNCHANGED <<setups, classes, dividers, clickListeners, followers, heroListeners,
                 parallaxListeners, followerActive, heroImage, heroOver>>
  /\ EnhancerFrame

\* the 600 ms timer of the oldest ripple: ripple.remove()
RippleTimer ==
  /\ ripples > 0
  /\ ripples' = ripples - 1
  /\ UNCHANGED <<setups, classes, dividers, clickListeners, followers, heroListeners,
                 parallaxListeners, lastInserted, followerActive, heroImage, heroOver>>
  /\ EnhancerFrame

\* 'mouseenter' on the .hero container: the listener of every setup() runs and
\* assigns the same style
HeroMouseEnter ==
  /\ ~heroOver
  /\ heroOver' = TRUE
  /\ heroImage' = Listener(heroListeners > 0, heroEnter(heroImage, reducedMotion), heroImage)
  /\ UNCHANGED <<setups, classes, dividers, clickListeners, followers, heroListeners,
                 parallaxListeners, ripples, lastInserted, followerActive>>
  /\ EnhancerFrame

\* 'mouseleave' on the .hero container
HeroMouseLeave ==
  /\ heroOver
  /\ heroOver' = FALSE
  /\ heroImage' = Listener(heroListeners > 0, heroLeave(heroImage), heroImage)
  /\ UNCHANGED <<setups, classes, dividers, clickListeners, followers, heroListeners,
                 parallaxListeners, ripples, lastInserted, followerActive>>
  /\ EnhancerFrame

\* 'mouseenter' on the button, captured by the document listener of every
\* follower: follower.classList.add('active')
InteractiveMouseEnter ==
  /\ followers > 0
  /\ ~followerActive
  /\ followerActive' = TRUE
  /\ UNCHANGED <<setups, classes, dividers, clickListeners, followers, heroListeners,
                 parallaxListeners, ripples, lastInserted, heroImage, heroOver>>
  /\ EnhancerFrame

\* 'mouseleave' on the button: follower.classList.remove('active')
InteractiveMouseLeave ==
  /\ followers > 0
  /\ followerActive
  /\ followerActive' = FALSE
  /\ UNCHANGED <<setups, classes, dividers, clickListeners, followers, heroListeners,
                 parallaxListeners, ripples, lastInserted, heroImage, heroOver>>
  /\ EnhancerFrame

EnhancerNext ==
  \/ SetupAgain
  \/ ButtonClick
  \/ RippleTimer
  \/ HeroMouseEnter
  \/ HeroMouseLeave
  \/ InteractiveMouseEnter
  \/ InteractiveMouseLeave

EnhancerSpec == EnhancerInit /\ [][EnhancerNext]_vars

\* =========================================================== ParallaxSpec ===
\* The body of handleScroll (setupParallaxEffect) for every rectangle of the
\* element and height of the viewport tried.  The throttle and the other
\* modifiers are EffectsSpec's.  Lengths are in px, progress in thousandths.

\* most hundreds of px of rect.top, above and below the viewport's top edge
MaxTop == 9

\* window.innerHeight and rect.height tried: a viewport taller than the
\* element, one of its height, and shorter ones
Geometries == {<<600, 400>>, <<500, 500>>, <<400, 600>>, <<200, 800>>}

\* the values of rect.top tried
Tops == {t * 100 : t \in (0 - MaxTop) .. MaxTop}

\* the layers tried: a parallax intensity on either axis or on both
ParallaxSettingsTried ==
  {st \in EffectSettingsTried :
     parallaxEnabled(st) /\ st.zoomIntensity = 0 /\ st.tiltIntensity = 0
     /\ st.blurFocusIntensity = 0}

ParallaxInit ==
  /\ effectSettings \in ParallaxSettingsTried
  /\ \E g \in Geometries : innerHeight = g[1] /\ rectHeight = g[2]
  /\ rectTop \in Tops
  /\ lastProgress = NotHandled
  /\ imgStyle = [transform |-> Unset, filter |-> Unset]
  /\ coarsePointer = FALSE
  /\ reducedMotion = FALSE
  /\ pointerOver = FALSE
  /\ throttled = FALSE
  /\ ticking = FALSE
  /\ parallaxRequests = 0
  /\ parallaxListeners = 0
  /\ parallaxBg = Unset
  /\ scrollY = 0
  /\ bodyRuns = [tilt |-> 0, parallax |-> 0, enhancer |-> 0]
  /\ lastMove = NoMove
  /\ handledY = NotHandled
  /\ NoEnhancer
  /\ NoManager
  /\ frames = 2
  /\ NoSoleLayer
  /\ now = 0
  /\ lastOp = "init"

\* what a step of ParallaxSpec leaves alone
ParallaxFrame ==
  UNCHANGED <<soleLayerVars, lastOp, now, managerVars, agentVars, enhancerVars,
              effectSettings, pointerOver, throttled, ticking, parallaxRequests,
              parallaxListeners, parallaxBg, scrollY, bodyRuns, lastMove, handledY>>

\* a 'scroll' event that finds the element at rect.top = top: the body of
\* handleScroll runs
ScrolledTo(top) ==
  /\ top # rectTop
  /\ rectTop' = top
  /\ lastProgress' = scrollProgressOf(top, innerHeight, rectHeight)
  /\ imgStyle' = applyParallax(effectSettings, imgStyle, lastProgress')
  /\ UNCHANGED <<innerHeight, rectHeight>>
  /\ ParallaxFrame

\* the window is resized: no handler of the layer runs
Resized(g) ==
  /\ g[1] # innerHeight
  /\ innerHeight' = g[1]
  /\ rectHeight' = g[2]
  /\ UNCHANGED <<rectTop, lastProgress, imgStyle>>
  /\ ParallaxFrame

ParallaxNext ==
  \/ \E top \in Tops : ScrolledTo(top)
  \/ \E g \in Geometries : Resized(g)

ParallaxSpec == ParallaxInit /\ [][ParallaxNext]_vars

\* -------------------------------------------------------------- claims ---

\* C1: for a layer with N >= 2 frames, after k firings of the frame-advance
\* timer, with any pause() and resume() calls in between, the current index
\* is k mod N.
C1_IndexIsFiringsModN == frames >= 2 => currentFrame = advances % frames

\* four firings on three frames, with a pause and a resume on the way
C1_Witness ==
  /\ frames = 3
  /\ advances = 4
  /\ currentFrame = 1
  /\ everPaused
  /\ isPlaying

\* C2: a layer with at most one frame never has a frame-advance timer
\* scheduled (it stays Idle), whatever pause(), resume(), pauseAll() and
\* resumeAll() calls are made.
C2_SingleFrameNeverSchedules ==
  frames <= 1 => advTimer = NoTimer /\ orphans = <<>>

\* every callback of every transition started so far has run: for slide, zoom
\* and blur this is exactly when the stated duration has elapsed since the
\* last advance and the callbacks then due have run
TransitionElapsed == advances >= 1 /\ rafQueue = <<>> /\ cleanups = <<>>

\* the current frame alone is opaque and in front
OnlyCurrentVisible ==
  \A i \in FrameIdx :
    /\ frameStyle[i].opacity = (IF i = currentFrame THEN "1" ELSE "0")
    /\ frameStyle[i].zIndex = (IF i = currentFrame THEN "2" ELSE "1")

\* C3: for every strategy, N >= 2 and frame duration, once the transition's
\* duration has elapsed after an advance exactly the current frame has
\* opacity 1 and is in front and every other frame has opacity 0; and no
\* cleanup callback of an earlier transition hides the frame that is current
\* when it runs, so the current frame is opaque at all times.
C3_OneFrameVisibleAfterTransition ==
  frames >= 2 =>
    /\ TransitionElapsed => OnlyCurrentVisible
    /\ frameStyle[currentFrame].opacity = "1"

\* C4: after destroy(), no mouseenter or mouseleave on the layer's element
\* makes the destroyed layer schedule a frame-advance timer or change a
\* frame.
C4_DestroyIsTerminal ==
  [][(destroyed /\ lastOp' \in {"mouseenter", "mouseleave"}) =>
       /\ advTimer' # NoTimer => advTimer' = advTimer
       /\ orphans' = orphans
       /\ currentFrame' = currentFrame
       /\ frameStyle' = frameStyle]_vars

\* C5: right after destroy() returns, in whatever state it was called, the
\* layer has no pending timer and the document holds no style resource keyed
\* by the layer's identifier.
C5_DestroyLeavesNothingPending ==
  lastOp = "destroy" =>
    /\ advTimer = NoTimer
    /\ orphans = <<>>
    /\ cleanups = <<>>
    /\ styleIds \cap StyleIdsOf(frames) = {}

\* C6: a destroy() called right after a destroy() changes nothing of the
\* layer, its timers and callbacks, and the document's style resources.
C6_DestroyIdempotent ==
  [][(lastOp = "destroy" /\ lastOp' = "destroy") => UNCHANGED layerVars]_vars

\* destroy() was called twice in a row on a layer that had played and had
\* Ken Burns style resources
C6_Witness ==
  /\ destroyCalls = 2
  /\ frames >= 2
  /\ advances >= 1
  /\ settings.kenBurnsIntensity > 0
  /\ styleIds = {}

\* C7: across pause() and the resume() that follows it the current index is
\* the index pause() found, and the first advance after the resume() moves
\* from that index i to (i + 1) mod N: no frame is skipped or repeated.
C7_PauseResumeKeepsIndex ==
  /\ resumeInfo.resumed => currentFrame = resumeInfo.index
  /\ (firedAfter.resumed /\ frames >= 2) =>
       currentFrame = (firedAfter.index + 1) % frames

\* the first advance after a pause()/resume() wraps from the last frame
C7_Witness ==
  /\ frames = 3
  /\ firedAfter.resumed
  /\ firedAfter.index = 2
  /\ currentFrame = 0

C9_ResumeSchedulesFullInterval ==
  /\ resumeInfo.resumed =>
       /\ isPlaying
       /\ advTimer = settings.frameDuration - resumeInfo.since
  /\ firedAfter.resumed => firedAfter.since = settings.frameDuration

\* the timer fired after a resume() of a layer that was paused with part of
\* its interval elapsed
C9_Witness ==
  /\ frames >= 2
  /\ firedAfter.resumed
  /\ firedAfter.midInterval
  /\ firedAfter.since = settings.frameDuration
  /\ lastOp = "timer"

\* C10: on a fade layer with N >= 2 frames that was never paused, at elapsed
\* time t, the callbacks due at t having run, the current index is
\* floor(t / frameDuration) mod N and the current frame's opacity is 1.
C10_FadeIndexAtTime ==
  (settings.transitionType = "fade" /\ frames >= 2 /\ ~everPaused /\ ~AdvanceDue) =>
    /\ currentFrame = (now \div settings.frameDuration) % frames
    /\ frameStyle[currentFrame].opacity = "1"

\* frameDuration 1000 ms, fade, 3 frames, at 2500 ms
C10_Witness ==
  /\ settings.transitionType = "fade"
  /\ settings.frameDuration = 10
  /\ frames = 3
  /\ ~everPaused
  /\ now = 25
  /\ currentFrame = 2
  /\ frameStyle[2].opacity = "1"

\* C11, as claimed: in every reachable state of every layer, whatever the
\* number of frames found in its container, the current index is an integer
\* in [0, frameCount).
C11_IndexInRange == currentFrame \in 0 .. (frames - 1)

\* C11, amended: in every reachable state of every layer whose container
\* holds at least one frame, the current index is an integer in
\* [0, frameCount).
C11_IndexInRangeOfNonEmpty == frames >= 1 => currentFrame \in 0 .. (frames - 1)

\* the index has wrapped from the last frame to the first
C11_Witness ==
  /\ frames = 3
  /\ advances = 3
  /\ currentFrame = 0
  /\ lastOp = "timer"

\* every layer that was constructed and not destroyed is the layer the
\* manager tracks for its identifier
OneLayerPerId ==
  \A i \in DOMAIN layers :
    ~layers[i].destroyed =>
      /\ layers[i].el.carouselId \in DOMAIN carousels
      /\ carousels[layers[i].el.carouselId] = i

\* C12: the manager tracks at most one layer per carousel identifier, and a
\* setupCarousels() that runs again with the page unchanged since the last
\* discovery constructs no layer and leaves the mapping, every layer with
\* its timers, and the style resources unchanged.
C12_DiscoveryIdempotent ==
  [][/\ OneLayerPerId'
     /\ (discoveries >= 1 /\ (SetupCarouselsCall \/ RefreshTimer)) =>
          UNCHANGED <<carousels, layers, headStyles>>]_vars

\* setupCarousels() has run again on a page of two elements whose layers are
\* playing, one of them in a transition
C12_Witness ==
  /\ discoveries = 2
  /\ Len(dom) = 2
  /\ Len(layers) = 2
  /\ DOMAIN carousels = {"a", "b"}
  /\ \E i \in DOMAIN layers : layers[i].currentFrame = 1 /\ layers[i].cleanups # <<>>

\* C13: once refresh() has been called and its delay has elapsed, every
\* layer tracked before is destroyed and has no timer or callback pending,
\* and the mapping holds exactly one layer, constructed after the refresh(),
\* for each carousel identifier of the page.
C13_RefreshRebuilds ==
  (refreshes >= 1 /\ refreshTimers = <<>>) =>
    /\ \A i \in DOMAIN layers :
         i <= freshFrom =>
           /\ layers[i].destroyed
           /\ layers[i].advTimer = NoTimer
           /\ layers[i].rafPending = 0
           /\ layers[i].cleanups = <<>>
    /\ DOMAIN carousels = {dom[k].carouselId : k \in DOMAIN dom}
    /\ \A id \in DOMAIN carousels :
         /\ carousels[id] > freshFrom
         /\ ~layers[carousels[id]].destroyed
         /\ \E k \in DOMAIN dom : dom[k] = layers[carousels[id]].el

\* the <style> element whose @keyframes rule an animation name refers to: the
\* last rule of that name in the document
KeyframesFor(head, name) ==
  LET rules == {h \in DOMAIN head : head[h].keyframes = name}
  IN head[CHOOSE h \in rules : \A g \in rules : g <= h]

\* no two style resources define keyframes of the same name, and every
\* frame's animation refers to the keyframes its own layer created
KeyframesOwn(head, ls) ==
  /\ \A h, g \in DOMAIN head : h # g => head[h].keyframes # head[g].keyframes
  /\ \A i \in DOMAIN ls :
       (~ls[i].destroyed /\ ls[i].el.frames > 1 /\ ls[i].settings.kenBurnsIntensity > 0) =>
         \A f \in 0 .. (ls[i].el.frames - 1) :
           KeyframesFor(head, animationName(f)).owner = i

\* C17: with any number of layers mounted with Ken Burns enabled, no two
\* injected style resources define keyframes of the same name, each frame's
\* animation refers to the keyframes created for its own layer, and a style
\* resource is removed only when its own layer is destroyed.
C17_KeyframesKeyedByLayer ==
  [][/\ KeyframesOwn(headStyles, layers)
     /\ KeyframesOwn(headStyles', layers')
     /\ \A h \in DOMAIN headStyles :
          headStyles[h] \notin Range(headStyles') =>
            /\ ~layers[headStyles[h].owner].destroyed
            /\ layers'[headStyles[h].owner].destroyed]_vars

\* the attribute is missing or its text writes no number
NoNumber(attr) == ~attr.present \/ attr.text \in NoNumberTexts

\* the attribute is missing or its text is none of fade, slide, zoom, blur
NoKind(attr) == ~attr.present \/ attr.text \notin {"fade", "slide", "zoom", "blur"}

\* what a fade layer shows while frame cur is current
FadeLayerStyle(cur) ==
  [i \in FrameIdx |->
     [opacity |-> IF i = cur THEN "1" ELSE "0",
      transform |-> "scale(1)",
      filter |-> "blur(0px)",
      zIndex |-> IF i = cur THEN "2" ELSE "1"]]

\* C14: a missing or non-numeric frame duration gives 3000 ms, and the frames
\* advance every 3000 ms; a missing transition type or one outside
\* fade|slide|zoom|blur gives what a fade layer does (800 ms, the fade
\* strategy, no animation frame and no cleanup); a missing or non-numeric
\* intensity gives 0 and the modifier is not set up.
C14_DefaultsOnBadConfig ==
  /\ NoNumber(dataset.frameDuration) =>
       /\ settings.frameDuration = 30
       /\ (frames >= 2 /\ ~AdvanceDue) => advances = now \div 30
  /\ (NoKind(dataset.transitionType) \/ dataset.transitionType = Text("fade")) =>
       /\ getTransitionDuration(settings.transitionType) = 8
       /\ frames >= 2 => frameStyle = FadeLayerStyle(currentFrame)
       /\ rafQueue = <<>>
       /\ cleanups = <<>>
  /\ NoNumber(dataset.zoomIntensity) =>
       /\ settings.zoomIntensity = 0
       /\ ~hoverListeners
  /\ NoNumber(dataset.parallaxVIntensity) =>
       /\ settings.parallaxVIntensity = 0
       /\ ~scrollListener
  /\ NoNumber(dataset.kenBurnsIntensity) =>
       /\ settings.kenBurnsIntensity = 0
       /\ styleIds = {}

\* a layer with no attribute but an unknown transition type has advanced
\* after 3000 ms, by a fade
C14_Witness ==
  /\ dataset.frameDuration = Absent
  /\ dataset.transitionType = Text("wipe")
  /\ dataset.zoomIntensity = Absent
  /\ frames = 3
  /\ now = 30
  /\ advances = 1
  /\ currentFrame = 1
  /\ frameStyle[1].opacity = "1"
  /\ frameStyle[0].opacity = "0"

\* C15: when the user agent reports a reduced-motion preference at setup
\* time, setupParallax() attaches no scroll listener, and whatever scroll
\* events come, the transform of the .parallax-bg elements is never written.
C15_ReducedMotionNoParallax ==
  reducedMotion => (parallaxListeners = 0 /\ parallaxRequests = 0 /\ parallaxBg = Unset)

\* C15 witness: under reduced motion the window was scrolled to the bottom
\* position, an animation frame has begun since, and .parallax-bg is untouched.
C15_Witness ==
  /\ reducedMotion
  /\ scrollY = 1400
  /\ handledY # NotHandled
  /\ ~throttled
  /\ parallaxBg = Unset

\* the functions of a transform list that a modifier contributed
Contains(transform, fns) ==
  \A i \in 1 .. Len(fns) :
    \E j \in 1 .. Len(transform) :
      transform[j].fn = fns[i].fn /\ transform[j].arg = fns[i].arg

\* C16: when several image modifiers are enabled on one layer, the image's
\* transform and filter hold the contribution of each of them at once: the
\* scale of the zoom while the pointer is over the element, the translation of
\* the last handled scroll, the rotation of the last pointer move, and the blur
\* of the blur-focus; no handler overwrites what another one contributed.
C16_ModifiersCombine ==
  LET st == effectSettings
  IN /\ (st.zoomIntensity > 0 /\ pointerOver)
          => Contains(imgStyle.transform, <<Fn("scale", zoomScale(st))>>)
     /\ (parallaxEnabled(st) /\ handledY # NotHandled)
          => Contains(imgStyle.transform, <<parallaxTranslate(st, handledY)>>)
     /\ (st.tiltIntensity > 0 /\ lastMove # NoMove)
          => Contains(imgStyle.transform, tiltRotate(st, lastMove))
     /\ st.blurFocusIntensity > 0
          => imgStyle.filter = <<Fn("blur", IF pointerOver THEN 0 ELSE maxBlur(st))>>

\* C18: however many scroll or pointer-move events arrive within one animation
\* frame (one throttle interval for the throttled handler), the body of the
\* enhancer's scroll handler, of the layer's scroll-parallax handler and of the
\* layer's tilt mousemove handler each runs at most once in it.
C18_HandlersRateLimited ==
  /\ bodyRuns.enhancer <= 1
  /\ bodyRuns.parallax <= 1
  /\ bodyRuns.tilt <= 1

\* a transform that the layer's zoom or tilt listeners wrote while the pointer
\* was over the element
TiltedOrZoomed(transform) ==
  \E j \in 1 .. Len(transform) :
    \/ transform[j].fn \in {"perspective", "rotateX", "rotateY"}
    \/ transform[j].fn = "scale" /\ transform[j].arg # 100

\* C19: when the device reports a coarse or non-hovering pointer, no cursor
\* follower element is created, and no pointer event makes the hover-zoom
\* listener write the hero image's style or the layer's zoom and tilt
\* listeners write the transform of the layer's images.
C19_CoarsePointerSkipsEffects ==
  coarsePointer =>
    /\ followers = 0
    /\ heroImage = [transform |-> Unset, filter |-> Unset]
    /\ ~TiltedOrZoomed(imgStyle.transform)

\* C20: after setup() has run a second time the page has the section dividers
\* and the classes it had after the first run, and a click on a button still
\* inserts exactly one ripple element.
C20_SetupIdempotent ==
  /\ dividers = firstSetup.dividers
  /\ classes = firstSetup.classes
  /\ lastInserted \in {NoClick, 1}

\* C21: whenever handleScroll has computed the scroll progress for the
\* geometry the page still has, the progress is within [0,1]; it is 0 if the
\* element's bottom edge is at the viewport's bottom edge and 1 if the
\* element's top edge is at the viewport's top edge; and the translation
\* written is (progress - 0.5) * intensity * 10 px on each axis.
C21_ProgressAtAlignments ==
  (lastProgress # NotHandled /\ lastProgress = scrollProgressOf(rectTop, innerHeight, rectHeight)) =>
    /\ lastProgress >= 0 /\ lastProgress <= 1000
    /\ (rectTop + rectHeight = innerHeight) => lastProgress = 0
    /\ (rectTop = 0) => lastProgress = 1000
    /\ \E h, v \in (0 - 25) .. 25 :
         /\ h * 100 = (lastProgress - 500) * effectSettings.parallaxHIntensity
         /\ v * 100 = (lastProgress - 500) * effectSettings.parallaxVIntensity
         /\ Contains(imgStyle.transform, <<Fn("translate3d", <<h, v>>)>>)

\* the frame-advance timers that are pending: the one animationId names and
\* those it no longer names
PendingAdvanceTimers == (IF advTimer # NoTimer THEN 1 ELSE 0) + Len(orphans)

\* C22: in every reachable state of a layer with at least 2 frames that has
\* not been destroyed, exactly one frame-advance timer is pending while
\* isPlaying is true and none while it is false, whatever timer firings,
\* pause(), resume(), pauseAll(), resumeAll() and hover events came before.
C22_OneTimerIffPlaying ==
  (frames >= 2 /\ ~destroyed) =>
    PendingAdvanceTimers = (IF isPlaying THEN 1 ELSE 0)

\* C22 witness: resume() was just called on a layer that an earlier resume()
\* had already restarted some time ago, and one timer is pending.
C22_Witness ==
  /\ frames >= 2
  /\ ~destroyed
  /\ lastOp = "resume"
  /\ resumeInfo.resumed
  /\ resumeInfo.since > 0
  /\ isPlaying
  /\ PendingAdvanceTimers = 1

\* C23: in every reachable state of a layer with at least 2 frames, the frame
\* at the current index has z-index '2' and every other frame has z-index '1'.
C23_CurrentFrameOnTop ==
  frames >= 2 =>
    \A i \in FrameIdx :
      frameStyle[i].zIndex = (IF i = currentFrame THEN "2" ELSE "1")

\* C23 witness: a layer of 3 frames has advanced past its last frame back to
\* the first one, which is on top again.
C23_Witness ==
  /\ frames = 3
  /\ advances >= 3
  /\ currentFrame = 0
  /\ frameStyle[0].zIndex = "2"
  /\ frameStyle[2].zIndex = "1"

\* a layer that init() gave the hover listeners
HoverLayer == frames >= 2 /\ settings.zoomIntensity > 0 /\ hoverListeners

\* a mouseenter pauses the layer, and from then on, while the pointer is inside
\* and nothing has resumed the layer, the index stays and only resume(),
\* resumeAll() or the mouseleave makes the layer play again
HoverFreezesIndex ==
  /\ (~pointerInside /\ pointerInside') => (~isPlaying' /\ PendingAdvanceTimers' = 0)
  /\ (pointerInside /\ ~isPlaying) =>
       /\ currentFrame' = currentFrame
       /\ isPlaying' => lastOp' \in ResumeOps

\* C24, as claimed: for a layer with zoomIntensity > 0 and at least 2 frames,
\* between a mouseenter and the next mouseleave the index does not change
\* unless resume() or resumeAll() is called in between, and every mouseleave
\* leaves the layer playing with one fresh full-interval timer.
C24_HoverPausesAndRestarts ==
  [][HoverLayer =>
       /\ HoverFreezesIndex
       /\ (pointerInside /\ ~pointerInside') =>
            /\ isPlaying'
            /\ PendingAdvanceTimers' = 1
            /\ advTimer' = scheduleDelay(settings)]_vars

\* C24, amended: as above, but the timer is a fresh full-interval one only
\* after a mouseleave that finds the layer paused; a mouseleave that finds it
\* playing, resume() or resumeAll() having been called during the hover, leaves
\* the running timer as it is.
C24_HoverPausesAndRestartsPaused ==
  [][HoverLayer =>
       /\ HoverFreezesIndex
       /\ (pointerInside /\ ~pointerInside') =>
            /\ isPlaying'
            /\ PendingAdvanceTimers' = 1
            /\ ~isPlaying => advTimer' = scheduleDelay(settings)]_vars

\* C24 witness: the pointer has just left a layer that was paused in the
\* middle of an interval and stayed at its index; the layer plays again and its
\* one timer has the full frame duration left.
C24_Witness ==
  /\ HoverLayer
  /\ lastOp = "mouseleave"
  /\ ~pointerInside
  /\ resumeInfo.resumed
  /\ resumeInfo.since = 0
  /\ resumeInfo.midInterval
  /\ resumeInfo.index = currentFrame
  /\ isPlaying
  /\ advTimer = scheduleDelay(settings)

=============================================================================
